---- MODULE Spec2Model ----
(***************************************************************************)
(* Model of amd/src/commands.js of tiny_speechtotext: the spoken-text      *)
(* normalizer (processTextWithPunctuation and its helpers) and the         *)
(* per-editor recognition session (handleAction, the preview close button, *)
(* and the recognizer's onresult / onerror / onend callbacks).             *)
(*                                                                         *)
(* A JavaScript string is a sequence of one-character strings, so that     *)
(* trimming, splitting, case conversion and the regular-expression tests   *)
(* of the source are computed character by character.                      *)
(***************************************************************************)
EXTENDS Integers, Sequences, FiniteSets, TLC

(***************************************************************************)
(* Characters and the String.prototype methods the source uses.            *)
(***************************************************************************)
LowerAlphabet ==
  <<"a", "b", "c", "d", "e", "f", "g", "h", "i", "j", "k", "l", "m", "n", "o", "p", "q", "r", "s", "t", "u", "v", "w", "x", "y", "z">>

UpperAlphabet ==
  <<"A", "B", "C", "D", "E", "F", "G", "H", "I", "J", "K", "L", "M", "N", "O", "P", "Q", "R", "S", "T", "U", "V", "W", "X", "Y", "Z">>

\* Characters matched by \s in a regular expression and removed by trim().
WhiteSpace == {" ", "\n", "\t"}

\* String.prototype.toUpperCase on one character.
charToUpperCase(c) ==
  IF \E k \in 1..Len(LowerAlphabet) : LowerAlphabet[k] = c
    THEN UpperAlphabet[CHOOSE k \in 1..Len(LowerAlphabet) : LowerAlphabet[k] = c]
    ELSE c

\* String.prototype.toLowerCase on one character.
charToLowerCase(c) ==
  IF \E k \in 1..Len(UpperAlphabet) : UpperAlphabet[k] = c
    THEN LowerAlphabet[CHOOSE k \in 1..Len(UpperAlphabet) : UpperAlphabet[k] = c]
    ELSE c

\* String.prototype.toLowerCase.
toLowerCase(str) == [k \in 1..Len(str) |-> charToLowerCase(str[k])]

RECURSIVE trimStart(_)
trimStart(str) ==
  IF Len(str) > 0 /\ str[1] \in WhiteSpace THEN trimStart(Tail(str)) ELSE str

RECURSIVE trimEnd(_)
trimEnd(str) ==
  IF Len(str) > 0 /\ str[Len(str)] \in WhiteSpace
    THEN trimEnd(SubSeq(str, 1, Len(str) - 1))
    ELSE str

\* String.prototype.trim.
trim(str) == trimEnd(trimStart(str))

\* String.prototype.endsWith for a one-character argument.
endsWith(str, c) == Len(str) > 0 /\ str[Len(str)] = c

\* str.split(/\s+/): the maximal runs of non-whitespace characters, with an
\* empty first (last) element when str starts (ends) with whitespace.
RECURSIVE splitFrom(_, _, _, _)
splitFrom(str, k, cur, acc) ==
  IF k > Len(str) THEN Append(acc, cur)
  ELSE IF str[k] \in WhiteSpace
    THEN IF k > 1 /\ str[k - 1] \in WhiteSpace
           THEN splitFrom(str, k + 1, cur, acc)
           ELSE splitFrom(str, k + 1, <<>>, Append(acc, cur))
    ELSE splitFrom(str, k + 1, Append(cur, str[k]), acc)

splitWhitespace(str) == splitFrom(str, 1, <<>>, <<>>)

\* Array.prototype.join(' ').
RECURSIVE joinSpace(_)
joinSpace(words) ==
  IF Len(words) = 0 THEN <<>>
  ELSE IF Len(words) = 1 THEN words[1]
  ELSE words[1] \o <<" ">> \o joinSpace(Tail(words))

\* Array.prototype.slice(from, to) with 0-based, end-exclusive indices.
slice(words, from, to) == SubSeq(words, from + 1, to)

(***************************************************************************)
(* The punctuation table and the phrase resolver.                          *)
(***************************************************************************)
\* Mutant of punctuationMap: "semi" alone is a phrase too, with another symbol.
punctuationMapWithSemi ==
  <<<<<<"s", "e", "m", "i">>, <<",">>>>,
    <<<<"f", "u", "l", "l", " ", "s", "t", "o", "p">>, <<".">>>>,
    <<<<"p", "e", "r", "i", "o", "d">>, <<".">>>>,
    <<<<"d", "o", "t">>, <<".">>>>,
    <<<<"c", "o", "m", "m", "a">>, <<",">>>>,
    <<<<"q", "u", "e", "s", "t", "i", "o", "n", " ", "m", "a", "r", "k">>, <<"?">>>>,
    <<<<"e", "x", "c", "l", "a", "m", "a", "t", "i", "o", "n", " ", "m", "a", "r", "k">>, <<"!">>>>,
    <<<<"e", "x", "c", "l", "a", "m", "a", "t", "i", "o", "n", " ", "p", "o", "i", "n", "t">>, <<"!">>>>,
    <<<<"s", "e", "m", "i", "c", "o", "l", "o", "n">>, <<";">>>>,
    <<<<"s", "e", "m", "i", " ", "c", "o", "l", "o", "n">>, <<";">>>>,
    <<<<"c", "o", "l", "o", "n">>, <<":">>>>,
    <<<<"d", "a", "s", "h">>, <<"-">>>>,
    <<<<"h", "y", "p", "h", "e", "n">>, <<"-">>>>,
    <<<<"a", "p", "o", "s", "t", "r", "o", "p", "h", "e">>, <<"'">>>>,
    <<<<"q", "u", "o", "t", "a", "t", "i", "o", "n", " ", "m", "a", "r", "k">>, <<"\"">>>>,
    <<<<"q", "u", "o", "t", "e">>, <<"\"">>>>,
    <<<<"o", "p", "e", "n", " ", "b", "r", "a", "c", "k", "e", "t">>, <<"(">>>>,
    <<<<"c", "l", "o", "s", "e", " ", "b", "r", "a", "c", "k", "e", "t">>, <<")">>>>,
    <<<<"o", "p", "e", "n", " ", "p", "a", "r", "e", "n", "t", "h", "e", "s", "i", "s">>, <<"(">>>>,
    <<<<"c", "l", "o", "s", "e", " ", "p", "a", "r", "e", "n", "t", "h", "e", "s", "i", "s">>, <<")">>>>,
    <<<<"n", "e", "w", " ", "l", "i", "n", "e">>, <<"\n">>>>,
    <<<<"n", "e", "w", " ", "p", "a", "r", "a", "g", "r", "a", "p", "h">>, <<"\n", "\n">>>>>>

\* Each entry is <<phrase, symbol>>.
punctuationMap ==
  <<<<<<"f", "u", "l", "l", " ", "s", "t", "o", "p">>, <<".">>>>,
    <<<<"p", "e", "r", "i", "o", "d">>, <<".">>>>,
    <<<<"d", "o", "t">>, <<".">>>>,
    <<<<"c", "o", "m", "m", "a">>, <<",">>>>,
    <<<<"q", "u", "e", "s", "t", "i", "o", "n", " ", "m", "a", "r", "k">>, <<"?">>>>,
    <<<<"e", "x", "c", "l", "a", "m", "a", "t", "i", "o", "n", " ", "m", "a", "r", "k">>, <<"!">>>>,
    <<<<"e", "x", "c", "l", "a", "m", "a", "t", "i", "o", "n", " ", "p", "o", "i", "n", "t">>, <<"!">>>>,
    <<<<"s", "e", "m", "i", "c", "o", "l", "o", "n">>, <<";">>>>,
    <<<<"s", "e", "m", "i", " ", "c", "o", "l", "o", "n">>, <<";">>>>,
    <<<<"c", "o", "l", "o", "n">>, <<":">>>>,
    <<<<"d", "a", "s", "h">>, <<"-">>>>,
    <<<<"h", "y", "p", "h", "e", "n">>, <<"-">>>>,
    <<<<"a", "p", "o", "s", "t", "r", "o", "p", "h", "e">>, <<"'">>>>,
    <<<<"q", "u", "o", "t", "a", "t", "i", "o", "n", " ", "m", "a", "r", "k">>, <<"\"">>>>,
    <<<<"q", "u", "o", "t", "e">>, <<"\"">>>>,
    <<<<"o", "p", "e", "n", " ", "b", "r", "a", "c", "k", "e", "t">>, <<"(">>>>,
    <<<<"c", "l", "o", "s", "e", " ", "b", "r", "a", "c", "k", "e", "t">>, <<")">>>>,
    <<<<"o", "p", "e", "n", " ", "p", "a", "r", "e", "n", "t", "h", "e", "s", "i", "s">>, <<"(">>>>,
    <<<<"c", "l", "o", "s", "e", " ", "p", "a", "r", "e", "n", "t", "h", "e", "s", "i", "s">>, <<")">>>>,
    <<<<"n", "e", "w", " ", "l", "i", "n", "e">>, <<"\n">>>>,
    <<<<"n", "e", "w", " ", "p", "a", "r", "a", "g", "r", "a", "p", "h">>, <<"\n", "\n">>>>>>

sentenceEndingPunctuation == {<<".">>, <<"?">>, <<"!">>, <<"\n", "\n">>}

isSentenceEnding(symbol) == symbol \in sentenceEndingPunctuation

\* The value null of the source.
null == <<"null">>

\* The own keys of punctuationMap.
punctuationKeys == {punctuationMap[k][1] : k \in 1..Len(punctuationMap)}

\* punctuationMap is an object literal, so a lookup that misses its own keys
\* falls through to Object.prototype.  The lowercase keys found there, each
\* with the text its (truthy) value gives when it is appended to a string.
inheritedProperties ==
  <<<<<<"c", "o", "n", "s", "t", "r", "u", "c", "t", "o", "r">>,
      <<"f", "u", "n", "c", "t", "i", "o", "n", " ", "O", "b", "j", "e", "c", "t", "(", ")", " ", "{", " ", "[", "n", "a", "t", "i", "v", "e", " ", "c", "o", "d", "e", "]", " ", "}">>>>,
    <<<<"_", "_", "p", "r", "o", "t", "o", "_", "_">>,
      <<"[", "o", "b", "j", "e", "c", "t", " ", "O", "b", "j", "e", "c", "t", "]">>>>>>

inheritedKeys == {inheritedProperties[k][1] : k \in 1..Len(inheritedProperties)}

\* punctuationMap[normalized] || null.
getPunctuationSymbol(phrase) ==
  LET normalized == trim(toLowerCase(phrase))
  IN IF normalized \in punctuationKeys
       THEN punctuationMap[CHOOSE k \in 1..Len(punctuationMap) :
                             punctuationMap[k][1] = normalized][2]
     ELSE IF normalized \in inheritedKeys
       THEN inheritedProperties[CHOOSE k \in 1..Len(inheritedProperties) :
                                  inheritedProperties[k][1] = normalized][2]
     ELSE null

\* The null result of matchPunctuation.
noMatch == [symbol |-> null, wordsConsumed |-> 0]

\* The for loop of matchPunctuation from wordCount down to 1.
RECURSIVE matchFrom(_, _, _)
matchFrom(words, startIndex, wordCount) ==
  IF wordCount < 1 THEN noMatch
  ELSE IF startIndex + wordCount > Len(words)
    THEN matchFrom(words, startIndex, wordCount - 1)
  ELSE LET phrase == joinSpace(slice(words, startIndex, startIndex + wordCount))
           symbol == getPunctuationSymbol(phrase)
       IN IF symbol # null
            THEN [symbol |-> symbol, wordsConsumed |-> wordCount]
            ELSE matchFrom(words, startIndex, wordCount - 1)

MaxPhraseWords == 3

\* Mutant of matchPunctuation: only the one-word window is tried.
matchPunctuationOneWord(words, startIndex) == matchFrom(words, startIndex, 1)

matchPunctuation(words, startIndex) == matchFrom(words, startIndex, MaxPhraseWords)

capitalizeWord(word) ==
  IF Len(word) = 0 THEN word
  ELSE <<charToUpperCase(word[1])>> \o Tail(word)

\* Mutant of getSpacingBefore: a trailing newline is not looked at.
getSpacingBeforeIgnoresNewline(currentResult) ==
  IF Len(currentResult) = 0 THEN <<>>
  ELSE IF endsWith(currentResult, " ") THEN <<>>
  ELSE <<" ">>

\* Mutant of getSpacingBefore: a space before every word but the first.
getSpacingBeforeAlways(currentResult) ==
  IF Len(currentResult) = 0 THEN <<>> ELSE <<" ">>

getSpacingBefore(currentResult) ==
  IF Len(currentResult) = 0 THEN <<>>
  ELSE IF endsWith(currentResult, "\n") \/ endsWith(currentResult, " ") THEN <<>>
  ELSE <<" ">>

\* Mutant of whileBody: a literal word moves the cursor by two.
whileBodySkipsWord(words, i, result, shouldCapitalize) ==
  LET punctMatch == matchPunctuation(words, i)
  IN IF punctMatch # noMatch
       THEN [i |-> i + punctMatch.wordsConsumed,
             result |-> result \o punctMatch.symbol
                          \o (IF punctMatch.symbol \notin {<<"\n">>, <<"\n", "\n">>}
                                THEN <<" ">> ELSE <<>>),
             shouldCapitalize |-> shouldCapitalize
                                    \/ isSentenceEnding(punctMatch.symbol),
             punctMatch |-> punctMatch]
       ELSE [i |-> i + 2,
             result |-> result \o getSpacingBefore(result)
                          \o (IF shouldCapitalize THEN capitalizeWord(words[i + 1])
                                                  ELSE words[i + 1]),
             shouldCapitalize |-> FALSE,
             punctMatch |-> punctMatch]

\* Mutant of whileBody: no space is appended after a symbol.
whileBodyNoSpaceAfter(words, i, result, shouldCapitalize) ==
  LET punctMatch == matchPunctuation(words, i)
  IN IF punctMatch # noMatch
       THEN [i |-> i + punctMatch.wordsConsumed,
             result |-> result \o punctMatch.symbol,
             shouldCapitalize |-> shouldCapitalize
                                    \/ isSentenceEnding(punctMatch.symbol),
             punctMatch |-> punctMatch]
       ELSE [i |-> i + 1,
             result |-> result \o getSpacingBefore(result)
                          \o (IF shouldCapitalize THEN capitalizeWord(words[i + 1])
                                                  ELSE words[i + 1]),
             shouldCapitalize |-> FALSE,
             punctMatch |-> punctMatch]

\* Mutant of whileBody: shouldCapitalize is not cleared after a word.
whileBodyKeepsFlag(words, i, result, shouldCapitalize) ==
  LET punctMatch == matchPunctuation(words, i)
  IN IF punctMatch # noMatch
       THEN [i |-> i + punctMatch.wordsConsumed,
             result |-> result \o punctMatch.symbol
                          \o (IF punctMatch.symbol # <<"\n">>
                                 /\ punctMatch.symbol # <<"\n", "\n">>
                                THEN <<" ">> ELSE <<>>),
             shouldCapitalize |-> shouldCapitalize
                                    \/ isSentenceEnding(punctMatch.symbol),
             punctMatch |-> punctMatch]
       ELSE [i |-> i + 1,
             result |-> result \o getSpacingBefore(result)
                          \o (IF shouldCapitalize THEN capitalizeWord(words[i + 1])
                                                  ELSE words[i + 1]),
             shouldCapitalize |-> shouldCapitalize,
             punctMatch |-> punctMatch]

\* One iteration of the while loop of processTextWithPunctuation at the
\* 0-based cursor i: the new cursor, result and shouldCapitalize, and the
\* punctMatch the iteration found.
whileBody(words, i, result, shouldCapitalize) ==
  LET punctMatch == matchPunctuation(words, i)
  IN IF punctMatch # noMatch
       THEN [i |-> i + punctMatch.wordsConsumed,
             result |-> result \o punctMatch.symbol
                          \o (IF punctMatch.symbol # <<"\n">>
                                 /\ punctMatch.symbol # <<"\n", "\n">>
                                THEN <<" ">> ELSE <<>>),
             shouldCapitalize |-> shouldCapitalize
                                    \/ isSentenceEnding(punctMatch.symbol),
             punctMatch |-> punctMatch]
       ELSE [i |-> i + 1,
             result |-> result \o getSpacingBefore(result)
                          \o (IF shouldCapitalize THEN capitalizeWord(words[i + 1])
                                                  ELSE words[i + 1]),
             shouldCapitalize |-> FALSE,
             punctMatch |-> punctMatch]

\* The while loop of processTextWithPunctuation from the cursor i on.
RECURSIVE processWords(_, _, _, _)
processWords(words, i, result, shouldCapitalize) ==
  IF i >= Len(words) THEN result
  ELSE LET next == whileBody(words, i, result, shouldCapitalize)
       IN processWords(words, next.i, next.result, next.shouldCapitalize)

\* Mutant of enterNormalize: a text of whitespace is returned as it is.
enterNormalizeReturnsText(text) ==
  IF Len(text) = 0 \/ Len(trim(text)) = 0
    THEN [returns |-> TRUE, result |-> text, words |-> <<>>]
    ELSE [returns |-> FALSE, result |-> <<>>,
          words |-> splitWhitespace(trim(text))]

\* The head of processTextWithPunctuation: either it returns '' at once, or
\* it enters the loop with the words of the trimmed text.
enterNormalize(text) ==
  IF Len(text) = 0 \/ Len(trim(text)) = 0
    THEN [returns |-> TRUE, result |-> <<>>, words |-> <<>>]
    ELSE [returns |-> FALSE, result |-> <<>>,
          words |-> splitWhitespace(trim(text))]

processTextWithPunctuation(text) ==
  LET entry == enterNormalize(text)
  IN IF entry.returns THEN entry.result
     ELSE processWords(entry.words, 0, entry.result, FALSE)

(***************************************************************************)
(* The recognition session of each editor.                                 *)
(***************************************************************************)
Editors == {"e1", "e2"}

\* The bound on the insertContent calls modelled per editor.
MaxInserts == 2

VARIABLES
  supported,        \* 'SpeechRecognition' in window || 'webkitSpeechRecognition' in window
  recognition,      \* state.recognition: "null", or the lifecycle of the recognizer object
  listening,        \* state.listening
  finalTranscript,  \* state.finalTranscript
  previewContainer, \* state.previewContainer: null, or the textContent of its preview text
  content,          \* the plain text of the editor's document
  inserts,          \* the number of editor.insertContent calls made so far
  lastOp,           \* the handler that ran last: its editor, its event, and
                    \* the editor's state when it was entered
  normCall          \* a call of processTextWithPunctuation: its argument, its
                    \* locals, its position, and the tokens it has emitted

vars == <<supported, recognition, listening, finalTranscript, previewContainer,
          content, inserts, lastOp, normCall>>

\* No call of processTextWithPunctuation is being followed.
normIdle ==
  [pc |-> "idle", text |-> <<>>, words |-> <<>>, i |-> 0, result |-> <<>>,
   shouldCapitalize |-> FALSE, tokens |-> <<>>]

\* The lifecycle of a SpeechRecognition object: not started, started, asked to
\* stop (it may still deliver results before it ends), or failed (onerror was
\* fired, onend follows).
RecognizerStates == {"inactive", "active", "stopping", "errored"}

noEvent == [resultIndex |-> 0, results |-> <<>>]

\* Mutant of getEditorState: one state shared by all editors.
getEditorStateShared(editor) == "e1"

\* The key under which editorStates holds the state of an editor.
getEditorState(editor) == editor

\* editor.getContent({format: 'text'}).
getContent(editorContent) == editorContent

\* editor.insertContent(text), the cursor being at the end of the document.
insertContent(editorContent, text) == editorContent \o text

\* showPreview: the new value of state.previewContainer.
showPreview(container) == IF container # null THEN container ELSE <<>>

\* hidePreview: the new value of state.previewContainer.
hidePreview(container) == null

\* updatePreview: the new value of state.previewContainer.
updatePreview(container, text) ==
  IF container # null THEN processTextWithPunctuation(text) ELSE container

\* /^[a-z]/.test(str)
startsWithLower(str) ==
  Len(str) > 0 /\ \E k \in 1..Len(LowerAlphabet) : LowerAlphabet[k] = str[1]

\* Mutant of shouldCapitalizeText: the content is tested without trim().
shouldCapitalizeTextUntrimmed(editorContent, textToInsert) ==
  IF Len(editorContent) = 0 \/ ~startsWithLower(textToInsert) THEN FALSE
  ELSE editorContent[Len(editorContent)] \in {".", "!", "?"}

shouldCapitalizeText(editorContent, textToInsert) ==
  IF Len(editorContent) = 0 \/ ~startsWithLower(textToInsert) THEN FALSE
  ELSE \* /[.!?]\s*$/.test(editorContent.trim())
       LET trimmed == trim(editorContent)
       IN \E k \in 1..Len(trimmed) :
            /\ trimmed[k] \in {".", "!", "?"}
            /\ \A j \in (k + 1)..Len(trimmed) : trimmed[j] \in WhiteSpace

\* Mutant of needsSpaceBefore: no test for leading punctuation.
needsSpaceBeforeNoPunctuation(editorContent, textToInsert) ==
  IF Len(editorContent) = 0 THEN FALSE
  ELSE IF endsWith(editorContent, " ") \/ endsWith(editorContent, "\n") THEN FALSE
  ELSE TRUE

\* Mutant of needsSpaceBefore: a trailing space of the content is not tested.
needsSpaceBeforeIgnoresSpace(editorContent, textToInsert) ==
  IF Len(editorContent) = 0 THEN FALSE
  ELSE IF endsWith(editorContent, "\n") THEN FALSE
  ELSE IF Len(textToInsert) > 0
          /\ textToInsert[1] \in {".", ",", "!", "?", ";", ":", ")", "]"} THEN FALSE
  ELSE TRUE

needsSpaceBefore(editorContent, textToInsert) ==
  IF Len(editorContent) = 0 THEN FALSE
  ELSE IF endsWith(editorContent, " ") \/ endsWith(editorContent, "\n") THEN FALSE
  ELSE IF Len(textToInsert) > 0
          /\ textToInsert[1] \in {".", ",", "!", "?", ";", ":", ")", "]"} THEN FALSE
  ELSE TRUE

\* prepareTextForInsertion, given the content the editor returns.
prepareTextForInsertion(editorContent, text) ==
  LET currentContent == getContent(editorContent)
      capitalized == IF shouldCapitalizeText(currentContent, text)
                       THEN capitalizeWord(text) ELSE text
  IN IF needsSpaceBefore(currentContent, capitalized)
       THEN <<" ">> \o capitalized ELSE capitalized

\* Mutant of collectResults: an interim slot is accumulated as final text too.
RECURSIVE collectResultsInterimToo(_, _, _, _)
collectResultsInterimToo(event, i, final, interim) ==
  IF i >= Len(event.results) THEN <<final, interim>>
  ELSE collectResultsInterimToo(event, i + 1,
         final \o event.results[i + 1].transcript \o <<" ">>,
         IF event.results[i + 1].isFinal THEN interim
         ELSE interim \o event.results[i + 1].transcript)

\* The for loop of handleRecognitionResult from slot i (0-based) on: the pair
\* <<state.finalTranscript, interimTranscript>> it leaves.
RECURSIVE collectResults(_, _, _, _)
collectResults(event, i, final, interim) ==
  IF i >= Len(event.results) THEN <<final, interim>>
  ELSE IF event.results[i + 1].isFinal
    THEN collectResults(event, i + 1,
                        final \o event.results[i + 1].transcript \o <<" ">>, interim)
    ELSE collectResults(event, i + 1,
                        final, interim \o event.results[i + 1].transcript)

\* Mutant of handleFinalTranscript: the preview is not cleared after the commit.
handleFinalTranscriptKeepsPreview(final, container, editorContent) ==
  IF Len(final) = 0
    THEN [finalTranscript |-> final, previewContainer |-> container,
          content |-> editorContent, inserts |-> 0]
    ELSE [finalTranscript |-> <<>>,
          previewContainer |-> container,
          content |-> insertContent(editorContent,
                        prepareTextForInsertion(editorContent,
                          processTextWithPunctuation(final))),
          inserts |-> 1]

\* Mutant of handleFinalTranscript: state.finalTranscript is not reset.
handleFinalTranscriptNoReset(final, container, editorContent) ==
  IF Len(final) = 0
    THEN [finalTranscript |-> final, previewContainer |-> container,
          content |-> editorContent, inserts |-> 0]
    ELSE [finalTranscript |-> final,
          previewContainer |-> updatePreview(container, <<>>),
          content |-> insertContent(editorContent,
                        prepareTextForInsertion(editorContent,
                          processTextWithPunctuation(final))),
          inserts |-> 1]

\* handleFinalTranscript: what it leaves of state.finalTranscript, of the
\* preview and of the document, and the number of insertContent calls it made.
handleFinalTranscript(final, container, editorContent) ==
  IF Len(final) = 0
    THEN [finalTranscript |-> final, previewContainer |-> container,
          content |-> editorContent, inserts |-> 0]
    ELSE LET processedText == processTextWithPunctuation(final)
             textToInsert == prepareTextForInsertion(editorContent, processedText)
         IN [finalTranscript |-> <<>>,
             previewContainer |-> updatePreview(container, <<>>),
             content |-> insertContent(editorContent, textToInsert),
             inserts |-> 1]

\* Mutant of handleRecognitionResult: the loop starts at slot 0.
handleRecognitionResultFromStart(final, container, editorContent, event) ==
  LET collected == collectResults(event, 0, final, <<>>)
      interimTranscript == collected[2]
      shown == IF Len(interimTranscript) > 0
                 THEN updatePreview(container, interimTranscript)
                 ELSE container
  IN handleFinalTranscript(collected[1], shown, editorContent)

handleRecognitionResult(final, container, editorContent, event) ==
  LET collected == collectResults(event, event.resultIndex, final, <<>>)
      interimTranscript == collected[2]
      shown == IF Len(interimTranscript) > 0
                 THEN updatePreview(container, interimTranscript)
                 ELSE container
  IN handleFinalTranscript(collected[1], shown, editorContent)

\* initializeRecognition: the new state.recognition, and whether the
\* SpeechRecognition constructor threw.
initializeRecognition(isSupported, ctorThrows) ==
  IF ~isSupported THEN [recognition |-> "null", threw |-> FALSE]
  ELSE IF ctorThrows THEN [recognition |-> "null", threw |-> TRUE]
  ELSE [recognition |-> "inactive", threw |-> FALSE]

\* recognition.stop() on a recognizer object.
recognizerStop(rec) == IF rec = "active" THEN "stopping" ELSE rec

\* Mutant of handleAction: the catch block does not hide the preview.
handleActionNoHide(st, isSupported, ctorThrows, startThrows) ==
  IF ~st.listening
    THEN LET init == IF st.recognition = "null"
                       THEN initializeRecognition(isSupported, ctorThrows)
                       ELSE [recognition |-> st.recognition, threw |-> FALSE]
         IN IF init.threw
              THEN [recognition |-> init.recognition, listening |-> st.listening,
                    previewContainer |-> st.previewContainer,
                    op |-> "startFailed"]
            ELSE IF init.recognition # "inactive" \/ startThrows
              THEN [recognition |-> init.recognition, listening |-> st.listening,
                    previewContainer |-> showPreview(st.previewContainer),
                    op |-> "startFailed"]
            ELSE [recognition |-> "active", listening |-> TRUE,
                  previewContainer |-> showPreview(st.previewContainer),
                  op |-> "start"]
  ELSE [recognition |-> recognizerStop(st.recognition), listening |-> FALSE,
        previewContainer |-> hidePreview(st.previewContainer), op |-> "stop"]

\* Mutant of handleAction: state.listening is set before recognition.start().
handleActionListensFirst(st, isSupported, ctorThrows, startThrows) ==
  IF ~st.listening
    THEN LET init == IF st.recognition = "null"
                       THEN initializeRecognition(isSupported, ctorThrows)
                       ELSE [recognition |-> st.recognition, threw |-> FALSE]
         IN IF init.threw
              THEN [recognition |-> init.recognition, listening |-> st.listening,
                    previewContainer |-> hidePreview(st.previewContainer),
                    op |-> "startFailed"]
            ELSE IF init.recognition # "inactive" \/ startThrows
              THEN [recognition |-> init.recognition, listening |-> TRUE,
                    previewContainer |-> hidePreview(showPreview(st.previewContainer)),
                    op |-> "startFailed"]
            ELSE [recognition |-> "active", listening |-> TRUE,
                  previewContainer |-> showPreview(st.previewContainer),
                  op |-> "start"]
  ELSE IF st.recognition = "null"
    THEN [recognition |-> st.recognition, listening |-> st.listening,
          previewContainer |-> st.previewContainer, op |-> "stop"]
  ELSE [recognition |-> recognizerStop(st.recognition), listening |-> FALSE,
        previewContainer |-> hidePreview(st.previewContainer), op |-> "stop"]

\* handleAction on the state st = [recognition, listening, previewContainer].
\* recognition.start() throws a TypeError on null, an InvalidStateError on a
\* recognizer that has not ended, and whenever the platform makes it throw.
handleAction(st, isSupported, ctorThrows, startThrows) ==
  IF ~st.listening
    THEN LET init == IF st.recognition = "null"
                       THEN initializeRecognition(isSupported, ctorThrows)
                       ELSE [recognition |-> st.recognition, threw |-> FALSE]
         IN IF init.threw
              THEN [recognition |-> init.recognition, listening |-> st.listening,
                    previewContainer |-> hidePreview(st.previewContainer),
                    op |-> "startFailed"]
            ELSE IF init.recognition # "inactive" \/ startThrows
              THEN [recognition |-> init.recognition, listening |-> st.listening,
                    previewContainer |-> hidePreview(showPreview(st.previewContainer)),
                    op |-> "startFailed"]
            ELSE [recognition |-> "active", listening |-> TRUE,
                  previewContainer |-> showPreview(st.previewContainer),
                  op |-> "start"]
  ELSE IF st.recognition = "null"
    THEN \* state.recognition.stop() throws a TypeError, nothing is caught
         [recognition |-> st.recognition, listening |-> st.listening,
          previewContainer |-> st.previewContainer, op |-> "stop"]
  ELSE [recognition |-> recognizerStop(st.recognition), listening |-> FALSE,
        previewContainer |-> hidePreview(st.previewContainer), op |-> "stop"]

\* Mutant of closeButton: the recognizer is stopped, state.listening is kept.
closeButtonKeepsListening(st) ==
  IF st.listening /\ st.recognition # "null"
    THEN [recognition |-> recognizerStop(st.recognition), listening |-> st.listening,
          previewContainer |-> hidePreview(st.previewContainer)]
    ELSE [recognition |-> st.recognition, listening |-> st.listening,
          previewContainer |-> hidePreview(st.previewContainer)]

\* The click listener of the preview's close button.
closeButton(st) ==
  IF st.listening /\ st.recognition # "null"
    THEN [recognition |-> recognizerStop(st.recognition), listening |-> FALSE,
          previewContainer |-> hidePreview(st.previewContainer)]
    ELSE [recognition |-> st.recognition, listening |-> st.listening,
          previewContainer |-> hidePreview(st.previewContainer)]

\* Mutant of onerror: the preview is left in place.
onerrorKeepsPreview(st) ==
  [recognition |-> "errored", listening |-> FALSE,
   previewContainer |-> st.previewContainer]

\* state.recognition.onerror
onerror(st) ==
  [recognition |-> "errored", listening |-> FALSE,
   previewContainer |-> hidePreview(st.previewContainer)]

\* Mutant of onend: the preview is left in place.
onendKeepsPreview(st) ==
  [recognition |-> "inactive", listening |-> FALSE,
   previewContainer |-> st.previewContainer]

\* state.recognition.onend
onend(st) ==
  [recognition |-> "inactive", listening |-> FALSE,
   previewContainer |-> hidePreview(st.previewContainer)]

(***************************************************************************)
(* Actions: one per handler.                                               *)
(***************************************************************************)
\* The record lastOp of a handler of editor e: its name, its event, and what
\* state.listening, the document and state.finalTranscript were on entry.
entered(op, e, event) ==
  [op |-> op, ed |-> e, event |-> event,
   was |-> listening[getEditorState(e)],
   content |-> content[e],
   pending |-> finalTranscript[getEditorState(e)]]

sessionOf(s) ==
  [recognition |-> recognition[s], listening |-> listening[s],
   previewContainer |-> previewContainer[s]]

SetSession(s, new) ==
  /\ recognition' = [recognition EXCEPT ![s] = new.recognition]
  /\ listening' = [listening EXCEPT ![s] = new.listening]
  /\ previewContainer' = [previewContainer EXCEPT ![s] = new.previewContainer]

\* The toggle button or the menu item of editor e.
\* handleAction runs whether or not the platform has the speech capability:
\* initializeRecognition repeats the capability test of getSetup.
HandleAction(e) ==
  \E ctorThrows \in BOOLEAN, startThrows \in BOOLEAN :
    LET s == getEditorState(e)
        new == handleAction(sessionOf(s), supported, ctorThrows, startThrows)
    IN /\ SetSession(s, new)
       /\ lastOp' = entered(new.op, e, noEvent)
       /\ UNCHANGED <<normCall, supported, finalTranscript, content, inserts>>

\* A click on the close button of the preview of editor e.  The listener
\* lives as long as the button element, also after hidePreview has removed
\* the preview from the page (a scripted click on the removed button, or a
\* second click event already dispatched): it can run while a preview is
\* shown, and afterwards in a session that has built its recognizer.
CloseButton(e) ==
  LET s == getEditorState(e)
  IN /\ previewContainer[s] # null \/ recognition[s] # "null"
     /\ SetSession(s, closeButton(sessionOf(s)))
     /\ lastOp' = entered("close", e, noEvent)
     /\ UNCHANGED <<normCall, supported, finalTranscript, content, inserts>>

\* The recognizer of editor e delivers a result event.
OnResult(e, event) ==
  LET s == getEditorState(e)
      new == handleRecognitionResult(finalTranscript[s], previewContainer[s],
                                     content[e], event)
  IN /\ recognition[s] \in {"active", "stopping"}
     /\ finalTranscript' = [finalTranscript EXCEPT ![s] = new.finalTranscript]
     /\ previewContainer' = [previewContainer EXCEPT ![s] = new.previewContainer]
     /\ content' = [content EXCEPT ![e] = new.content]
     /\ inserts' = [inserts EXCEPT ![e] = @ + new.inserts]
     /\ lastOp' = entered("result", e, event)
     /\ UNCHANGED <<normCall, supported, recognition, listening>>

\* Mutant of OnError: the error reason is written into the document.
OnErrorWrites(e) ==
  LET s == getEditorState(e)
  IN /\ recognition[s] \in {"active", "stopping"}
     /\ SetSession(s, onerror(sessionOf(s)))
     /\ content' = [content EXCEPT ![e] = insertContent(@, <<"!">>)]
     /\ lastOp' = entered("error", e, noEvent)
     /\ UNCHANGED <<normCall, supported, finalTranscript, inserts>>

\* The recognizer of editor e reports an error.
OnError(e) ==
  LET s == getEditorState(e)
  IN /\ recognition[s] \in {"active", "stopping"}
     /\ SetSession(s, onerror(sessionOf(s)))
     /\ lastOp' = entered("error", e, noEvent)
     /\ UNCHANGED <<normCall, supported, finalTranscript, content, inserts>>

\* The recognizer of editor e ends.
OnEnd(e) ==
  LET s == getEditorState(e)
  IN /\ recognition[s] \in {"active", "stopping", "errored"}
     /\ SetSession(s, onend(sessionOf(s)))
     /\ lastOp' = entered("end", e, noEvent)
     /\ UNCHANGED <<normCall, supported, finalTranscript, content, inserts>>

(***************************************************************************)
(* Spec: two editors, a few result events.                                 *)
(***************************************************************************)
tHi == <<"h", "i">>
tDot == <<"d", "o", "t">>

finalSlot(text) == [transcript |-> text, isFinal |-> TRUE]
interimSlot(text) == [transcript |-> text, isFinal |-> FALSE]

SessionEvents ==
  { [resultIndex |-> 0, results |-> <<finalSlot(tHi)>>],
    [resultIndex |-> 0, results |-> <<finalSlot(tDot)>>],
    [resultIndex |-> 0, results |-> <<interimSlot(tHi)>>],
    [resultIndex |-> 0, results |-> <<finalSlot(tDot), interimSlot(tHi)>>],
    [resultIndex |-> 1, results |-> <<finalSlot(tHi), interimSlot(tDot)>>] }

Init ==
  /\ supported \in BOOLEAN
  /\ recognition = [e \in Editors |-> "null"]
  /\ listening = [e \in Editors |-> FALSE]
  /\ finalTranscript = [e \in Editors |-> <<>>]
  /\ previewContainer = [e \in Editors |-> null]
  /\ content = [e \in Editors |-> <<>>]
  /\ inserts = [e \in Editors |-> 0]
  /\ normCall = normIdle
  /\ lastOp = [op |-> "init", ed |-> "e1", event |-> noEvent, was |-> FALSE,
               content |-> <<>>, pending |-> <<>>]

Result(e) ==
  \E event \in SessionEvents : inserts[e] < MaxInserts /\ OnResult(e, event)

Next ==
  \E e \in Editors :
    \/ HandleAction(e)
    \/ CloseButton(e)
    \/ Result(e)
    \/ OnError(e)
    \/ OnEnd(e)

Spec == Init /\ [][Next]_vars

(***************************************************************************)
(* SpecCommit: one editor whose document already holds text, and result    *)
(* events that each carry one final slot.                                  *)
(***************************************************************************)
tThereIsMore == <<"t", "h", "e", "r", "e", " ", "i", "s", " ", "m", "o", "r", "e">>
tMoreText == <<"m", "o", "r", "e", " ", "t", "e", "x", "t">>
tOk == <<"O", "k">>
tComma == <<"c", "o", "m", "m", "a">>
tNewLine == <<"n", "e", "w", " ", "l", "i", "n", "e">>
tCloseBracket == <<"c", "l", "o", "s", "e", " ", "b", "r", "a", "c", "k", "e", "t">>
tBlank == <<" ">>

tNewParagraph == <<"n", "e", "w", " ", "p", "a", "r", "a", "g", "r", "a", "p", "h">>

CommitTranscripts ==
  {tThereIsMore, tMoreText, tHi, tOk, tDot, tComma, tNewLine, tNewParagraph,
   tCloseBracket, tBlank}

CommitEvents ==
  {[resultIndex |-> 0, results |-> <<finalSlot(text)>>] : text \in CommitTranscripts}
    \cup {[resultIndex |-> 0, results |-> <<interimSlot(tHi), finalSlot(tHi)>>]}

dHelloWorldStop == <<"H", "e", "l", "l", "o", " ", "w", "o", "r", "l", "d", ".">>
dHelloWorldComma == <<"H", "e", "l", "l", "o", " ", "w", "o", "r", "l", "d", ",">>

DocSamples ==
  { <<>>, dHelloWorldStop, dHelloWorldComma,
    <<"H", "i">>, <<"H", "i", " ">>, <<"H", "i", ".", " ">>, <<"H", "i", ".", "\n">>,
    <<"H", "i", "!">>, <<"H", "i", "?">>, <<"H", "i", ":">>, <<" ">>, <<"(">> }

InitCommit ==
  /\ supported \in BOOLEAN
  /\ recognition = [e \in Editors |-> "null"]
  /\ listening = [e \in Editors |-> FALSE]
  /\ finalTranscript = [e \in Editors |-> <<>>]
  /\ previewContainer = [e \in Editors |-> null]
  /\ \E d \in DocSamples : content = [e \in Editors |-> IF e = "e1" THEN d ELSE <<>>]
  /\ inserts = [e \in Editors |-> 0]
  /\ normCall = normIdle
  /\ lastOp = [op |-> "init", ed |-> "e1", event |-> noEvent, was |-> FALSE,
               content |-> <<>>, pending |-> <<>>]

ResultCommit(e) ==
  \E event \in CommitEvents : inserts[e] < MaxInserts /\ OnResult(e, event)

NextCommit ==
  \/ HandleAction("e1")
  \/ ResultCommit("e1")
  \/ OnEnd("e1")

SpecCommit == InitCommit /\ [][NextCommit]_vars

(***************************************************************************)
(* SpecSlots: one editor, and result events of several slots with          *)
(* resultIndex 0 or 1.                                                     *)
(***************************************************************************)
SlotEvents ==
  SessionEvents \cup
  { [resultIndex |-> 0, results |-> <<finalSlot(tHi), finalSlot(tDot)>>],
    [resultIndex |-> 1, results |-> <<finalSlot(tHi), finalSlot(tDot)>>],
    [resultIndex |-> 1, results |-> <<finalSlot(tDot), interimSlot(tHi),
                                      finalSlot(tHi), interimSlot(tDot)>>],
    [resultIndex |-> 0, results |-> <<interimSlot(tHi), interimSlot(tDot)>>],
    [resultIndex |-> 1, results |-> <<interimSlot(tDot), interimSlot(tHi),
                                      interimSlot(tDot)>>] }

ResultSlots(e) ==
  \E event \in SlotEvents : inserts[e] < MaxInserts /\ OnResult(e, event)

NextSlots ==
  \/ HandleAction("e1")
  \/ ResultSlots("e1")
  \/ OnEnd("e1")

SpecSlots == Init /\ [][NextSlots]_vars

(***************************************************************************)
(* SpecNorm: one call of processTextWithPunctuation, followed iteration by *)
(* iteration, on a text of up to MaxWords words.                           *)
(***************************************************************************)
MaxWords == 3

wTest == <<"t", "e", "s", "t">>
wDotCapital == <<"D", "o", "t">>
wFull == <<"f", "u", "l", "l">>
wStop == <<"s", "t", "o", "p">>
wNew == <<"n", "e", "w">>
wLine == <<"l", "i", "n", "e">>
wParagraph == <<"p", "a", "r", "a", "g", "r", "a", "p", "h">>
wSemi == <<"s", "e", "m", "i">>
wColon == <<"c", "o", "l", "o", "n">>
wConstructor == <<"c", "o", "n", "s", "t", "r", "u", "c", "t", "o", "r">>

Vocabulary ==
  {tHi, wTest, wDotCapital, wFull, wStop, tComma, wNew, wLine, wParagraph,
   wSemi, wColon, wConstructor}

xHelloCommaWorldFullStop == <<"h", "e", "l", "l", "o", " ", "c", "o", "m", "m", "a", " ", "w", "o", "r", "l", "d", " ", "f", "u", "l", "l", " ", "s", "t", "o", "p">>
xNewParagraphHello == <<"n", "e", "w", " ", "p", "a", "r", "a", "g", "r", "a", "p", "h", " ", "h", "e", "l", "l", "o">>

\* Texts that are empty, all whitespace, or separated by more than one space.
ExtraTexts ==
  { <<>>, <<" ">>, <<" ", "\n", " ">>,
    xHelloCommaWorldFullStop, xNewParagraphHello,
    <<" ", "h", "i", " ", " ", "t", "e", "s", "t", "\n">>,
    <<"F", "u", "l", "l", " ", " ", "S", "T", "O", "P", " ", "h", "i">> }

NormTexts ==
  {joinSpace(ws) : ws \in UNION {[1..n -> Vocabulary] : n \in 1..MaxWords}}
    \cup ExtraTexts

InitNorm ==
  /\ supported = TRUE
  /\ recognition = [e \in Editors |-> "null"]
  /\ listening = [e \in Editors |-> FALSE]
  /\ finalTranscript = [e \in Editors |-> <<>>]
  /\ previewContainer = [e \in Editors |-> null]
  /\ content = [e \in Editors |-> <<>>]
  /\ inserts = [e \in Editors |-> 0]
  /\ lastOp = [op |-> "init", ed |-> "e1", event |-> noEvent, was |-> FALSE,
               content |-> <<>>, pending |-> <<>>]
  /\ \E text \in NormTexts : normCall = [normIdle EXCEPT !.pc = "call", !.text = text]

sessionVars == <<supported, recognition, listening, finalTranscript,
                 previewContainer, content, inserts, lastOp>>

\* The token an iteration emitted: a symbol (without the space after it) or a
\* word, the cursor it was read at, the words it consumed, and the position of
\* its first character in the result.
tokenOf(words, i, result, next) ==
  IF next.punctMatch # noMatch
    THEN [kind |-> "symbol", at |-> i, consumed |-> next.i - i,
          start |-> Len(result) + 1, text |-> next.punctMatch.symbol]
    ELSE [kind |-> "word", at |-> i, consumed |-> next.i - i,
          start |-> Len(next.result) - Len(words[i + 1]) + 1,
          text |-> SubSeq(next.result, Len(next.result) - Len(words[i + 1]) + 1,
                          Len(next.result))]

\* The test for empty text, and the split into words.
NormEnter ==
  /\ normCall.pc = "call"
  /\ LET entry == enterNormalize(normCall.text)
     IN normCall' = [normCall EXCEPT !.pc = IF entry.returns THEN "done" ELSE "loop",
                             !.words = entry.words,
                             !.result = entry.result]
  /\ UNCHANGED sessionVars

\* One iteration of the while loop.
NormIterate ==
  /\ normCall.pc = "loop"
  /\ normCall.i < Len(normCall.words)
  /\ LET next == whileBody(normCall.words, normCall.i, normCall.result, normCall.shouldCapitalize)
     IN normCall' = [normCall EXCEPT !.i = next.i,
                             !.result = next.result,
                             !.shouldCapitalize = next.shouldCapitalize,
                             !.tokens = Append(@, tokenOf(normCall.words, normCall.i,
                                                          normCall.result, next))]
  /\ UNCHANGED sessionVars

\* The loop condition fails: return result.
NormReturn ==
  /\ normCall.pc = "loop"
  /\ normCall.i >= Len(normCall.words)
  /\ normCall' = [normCall EXCEPT !.pc = "done"]
  /\ UNCHANGED sessionVars

NextNorm == NormEnter \/ NormIterate \/ NormReturn

SpecNorm == InitNorm /\ [][NextNorm]_vars

(***************************************************************************)
(* Properties of the session.                                              *)
(***************************************************************************)
TerminationOps == {"stop", "close", "error", "end"}

\* C1: from Listening, stop() (toggle or preview close button), onerror and
\* onend each leave the session Idle with the preview hidden, whatever
\* preceded.
C1_TerminationYieldsIdle ==
  (lastOp.op \in TerminationOps /\ lastOp.was)
    => (~listening[lastOp.ed] /\ previewContainer[lastOp.ed] = null)

\* A recognizer error ended a listening session that had already committed.
C1_Witness ==
  /\ lastOp.op = "error" /\ lastOp.was
  /\ inserts[lastOp.ed] > 0
  /\ ~listening[lastOp.ed] /\ previewContainer[lastOp.ed] = null

\* C2: a result event delivered while the session is Idle changes neither the
\* document, nor state.finalTranscript, nor the preview.
C2_NoResultWhileIdle ==
  [][\A e \in Editors :
       (lastOp'.op = "result" /\ lastOp'.ed = e /\ ~listening[e])
         => /\ content'[e] = content[e]
            /\ finalTranscript'[e] = finalTranscript[e]
            /\ previewContainer'[e] = previewContainer[e]]_vars

\* C7: a failed start, stop(), onerror and onend leave the document of every
\* editor as it was and call insertContent on none.
C7_FailuresKeepDocument ==
  [][lastOp'.op \in (TerminationOps \cup {"startFailed"})
       => (content' = content /\ inserts' = inserts)]_vars

\* A stop after a commit: the document still holds exactly the committed text.
C7_Witness ==
  /\ lastOp.op = "stop" /\ lastOp.was
  /\ inserts[lastOp.ed] = 1
  /\ content[lastOp.ed] = <<"h", "i">>

\* C8: every failed start attempt leaves the session Idle with the preview
\* hidden, and leaves no recognizer running (nothing is retried).
C8_FailedStartStaysIdle ==
  lastOp.op = "startFailed"
    => /\ ~listening[lastOp.ed]
       /\ previewContainer[lastOp.ed] = null
       /\ recognition[lastOp.ed] # "active"

\* A start attempt on a platform without the speech capability.
C8_Witness ==
  /\ lastOp.op = "startFailed" /\ ~supported
  /\ recognition[lastOp.ed] = "null" /\ ~listening[lastOp.ed]

\* C9: a handler of one editor leaves the listening flag, finalTranscript,
\* preview, recognizer and document of every other editor unchanged.
C9_EditorsIsolated ==
  [][\A e \in Editors :
       lastOp'.ed # e
         => /\ listening'[e] = listening[e]
            /\ finalTranscript'[e] = finalTranscript[e]
            /\ previewContainer'[e] = previewContainer[e]
            /\ recognition'[e] = recognition[e]
            /\ content'[e] = content[e]
            /\ inserts'[e] = inserts[e]]_vars

\* One editor committed text while the other, listening, kept an empty document.
C9_Witness ==
  \E e \in Editors, o \in Editors :
    /\ e # o
    /\ lastOp.op = "result" /\ lastOp.ed = e /\ inserts[e] > 0
    /\ listening[o] /\ content[o] = <<>> /\ inserts[o] = 0

\* C10: between handlers state.finalTranscript is empty, in every editor.
C10_PendingFinalEmpty ==
  \A e \in Editors : finalTranscript[e] = <<>>

\* A second commit in a later event inserted only that event's text.
C10_Witness ==
  /\ lastOp.op = "result" /\ inserts[lastOp.ed] = 2
  /\ content[lastOp.ed] = <<"h", "i", " ", "h", "i">>
  /\ finalTranscript[lastOp.ed] = <<>>

(***************************************************************************)
(* Properties of the result handler.                                       *)
(***************************************************************************)
\* The text of the final slots of an event from resultIndex on, each followed
\* by one space.
RECURSIVE concatFinal(_)
concatFinal(slots) ==
  IF Len(slots) = 0 THEN <<>>
  ELSE (IF slots[1].isFinal THEN slots[1].transcript \o <<" ">> ELSE <<>>)
         \o concatFinal(Tail(slots))

finalTextOf(event) ==
  concatFinal(SubSeq(event.results, event.resultIndex + 1, Len(event.results)))

hasInterimText(event) ==
  \E k \in (event.resultIndex + 1)..Len(event.results) :
    ~event.results[k].isFinal /\ Len(event.results[k].transcript) > 0

\* What a result step appended to the document of editor e.
insertedText(old, new) == SubSeq(new, Len(old) + 1, Len(new))

upperFirst(text) ==
  IF Len(text) = 0 THEN text ELSE [text EXCEPT ![1] = charToUpperCase(@)]

\* C3: the document after a result event is its content before, followed by
\* text computed from the final slots and that content only; interim text is
\* never part of it.
C3_InterimNeverCommitted ==
  lastOp.op = "result"
    => LET pending == lastOp.pending \o finalTextOf(lastOp.event)
       IN content[lastOp.ed] =
            IF Len(pending) = 0 THEN lastOp.content
            ELSE lastOp.content \o prepareTextForInsertion(lastOp.content,
                                     processTextWithPunctuation(pending))

\* An event with the final slot "dot" and the interim slot "hi" committed ". ".
C3_Witness ==
  /\ lastOp.op = "result"
  /\ lastOp.event = [resultIndex |-> 0, results |-> <<finalSlot(tDot), interimSlot(tHi)>>]
  /\ hasInterimText(lastOp.event)
  /\ content[lastOp.ed] = <<".", " ">>

\* C4: a result event that leaves state.finalTranscript non-empty after its
\* loop makes exactly one insertion, and when the handler returns
\* state.finalTranscript is empty and the preview shows no text, also when
\* the event carried interim slots.
C4_CommitClearsPendingAndPreview ==
  [][\A e \in Editors :
       (/\ lastOp'.op = "result" /\ lastOp'.ed = e
        /\ Len(finalTranscript[e] \o finalTextOf(lastOp'.event)) > 0)
         => /\ inserts'[e] = inserts[e] + 1
            /\ Len(content'[e]) >= Len(content[e])
            /\ SubSeq(content'[e], 1, Len(content[e])) = content[e]
            /\ finalTranscript'[e] = <<>>
            /\ previewContainer'[e] \in {null, <<>>}]_vars

\* While listening, an event with a final and an interim slot committed and
\* left an empty preview.
C4_Witness ==
  /\ lastOp.op = "result" /\ lastOp.was
  /\ hasInterimText(lastOp.event) /\ Len(finalTextOf(lastOp.event)) > 0
  /\ inserts[lastOp.ed] = 1
  /\ previewContainer[lastOp.ed] = <<>>
  /\ finalTranscript[lastOp.ed] = <<>>

\* The condition of C5 on the document content and the normalized text.
capitalizeCondition(doc, norm) ==
  /\ Len(doc) > 0
  /\ Len(norm) > 0 /\ norm[1] \in {LowerAlphabet[k] : k \in 1..Len(LowerAlphabet)}
  /\ LET trimmed == trim(doc)
     IN Len(trimmed) > 0 /\ trimmed[Len(trimmed)] \in {".", "!", "?"}

\* The condition of C6 on the document content and the normalized text.
spaceCondition(doc, norm) ==
  /\ Len(doc) > 0
  /\ doc[Len(doc)] \notin {" ", "\n"}
  /\ ~(Len(norm) > 0 /\ norm[1] \in {".", ",", "!", "?", ";", ":", ")", "]"})

\* C5: at commit the first character of the normalized text is uppercased
\* exactly when the document is non-empty, the normalized text starts with a
\* lowercase letter and the trimmed document ends with '.', '!' or '?';
\* "Hello world." with "there is more" commits " There is more" and
\* "Hello world," with "more text" commits " more text".
C5_CommitCapitalization ==
  (lastOp.op = "result" /\ Len(lastOp.pending \o finalTextOf(lastOp.event)) > 0)
    => LET norm == processTextWithPunctuation(
                     lastOp.pending \o finalTextOf(lastOp.event))
           inserted == insertedText(lastOp.content, content[lastOp.ed])
           body == IF Len(inserted) = Len(norm) + 1 THEN Tail(inserted)
                   ELSE inserted
           capitalize == capitalizeCondition(lastOp.content, norm)
       IN /\ capitalize => (body = upperFirst(norm) /\ body # norm)
          /\ ~capitalize => body = norm
          /\ (lastOp.content = dHelloWorldStop /\ norm = tThereIsMore)
               => inserted = <<" ", "T">> \o Tail(tThereIsMore)
          /\ (lastOp.content = dHelloWorldComma /\ norm = tMoreText)
               => inserted = <<" ">> \o tMoreText

\* "there is more" was committed after "Hello world." as " There is more".
C5_Witness ==
  /\ lastOp.op = "result"
  /\ content["e1"] = dHelloWorldStop \o <<" ", "T">> \o Tail(tThereIsMore)

\* C6: at commit exactly one space is put before the (possibly capitalized)
\* normalized text when the document is non-empty, does not end in a space
\* or newline and the normalized text does not start with one of
\* . , ! ? ; : ) ], and nothing is put before it otherwise; the character
\* that is capitalized is the first one of the normalized text.
C6_CommitSpacing ==
  (lastOp.op = "result" /\ Len(lastOp.pending \o finalTextOf(lastOp.event)) > 0)
    => LET norm == processTextWithPunctuation(
                     lastOp.pending \o finalTextOf(lastOp.event))
           inserted == insertedText(lastOp.content, content[lastOp.ed])
           prefix == IF spaceCondition(lastOp.content, norm) THEN <<" ">> ELSE <<>>
       IN /\ Len(content[lastOp.ed]) >= Len(lastOp.content)
          /\ \/ inserted = prefix \o norm
             \/ inserted = prefix \o upperFirst(norm)

\* "comma" was committed after "Hi" as ", " with no space before it.
C6_Witness ==
  /\ lastOp.op = "result" /\ inserts["e1"] = 1
  /\ lastOp.event = [resultIndex |-> 0, results |-> <<finalSlot(tComma)>>]
  /\ content["e1"] = <<"H", "i", ",", " ">>

(***************************************************************************)
(* Properties of processTextWithPunctuation.                               *)
(***************************************************************************)
\* The symbols of the punctuation table.
tableSymbols == {punctuationMap[k][2] : k \in 1..Len(punctuationMap)}

newlineSymbols == {<<"\n">>, <<"\n", "\n">>}

tokenAt(k) == normCall.tokens[k]

\* C11: in the output no space stands immediately before a punctuation symbol
\* produced from a spoken phrase, also when two phrases follow each other.
C11_NoSpaceBeforeSymbol ==
  \A k \in 1..Len(normCall.tokens) :
    (tokenAt(k).kind = "symbol" /\ tokenAt(k).text \in tableSymbols
       /\ tokenAt(k).start > 1)
      => normCall.result[tokenAt(k).start - 1] # " "

\* C12: the output holds no two consecutive space characters.
C12_NoDoubleSpace ==
  \A k \in 1..(Len(normCall.result) - 1) :
    ~(normCall.result[k] = " " /\ normCall.result[k + 1] = " ")

\* "full stop Dot hi", two symbols and then a word, gave ". . Hi".
C12_Witness ==
  /\ normCall.pc = "done"
  /\ Len(normCall.tokens) = 3
  /\ tokenAt(1).kind = "symbol" /\ tokenAt(2).kind = "symbol"
  /\ tokenAt(3).kind = "word"
  /\ normCall.result = <<".", " ", ".", " ", "H", "i">>

\* Token k is a word and a sentence-ending symbol was emitted before it with
\* no word in between.
followsSentenceEnd(k) ==
  \E j \in 1..(k - 1) :
    /\ tokenAt(j).kind = "symbol"
    /\ tokenAt(j).text \in {<<".">>, <<"?">>, <<"!">>, <<"\n", "\n">>}
    /\ \A m \in (j + 1)..(k - 1) : tokenAt(m).kind = "symbol"

\* C13: a literal word is emitted with its first character uppercased when it
\* is the first literal word after a sentence-ending symbol, and character
\* for character unchanged otherwise; "new paragraph hello" gives
\* "\n\nHello".
C13_CapitalizeAfterSentenceEnd ==
  /\ \A k \in 1..Len(normCall.tokens) :
       tokenAt(k).kind = "word"
         => tokenAt(k).text =
              IF followsSentenceEnd(k)
                THEN upperFirst(normCall.words[tokenAt(k).at + 1])
                ELSE normCall.words[tokenAt(k).at + 1]
  /\ (normCall.pc = "done" /\ normCall.text = xNewParagraphHello)
       => normCall.result = <<"\n", "\n", "H", "e", "l", "l", "o">>

\* "Dot hi test" gave ". Hi test": the first word capitalized, the second not.
C13_Witness ==
  /\ normCall.pc = "done"
  /\ normCall.text = <<"D", "o", "t", " ", "h", "i", " ", "t", "e", "s", "t">>
  /\ normCall.result = <<".", " ", "H", "i", " ", "t", "e", "s", "t">>

(***************************************************************************)
(* Capitalization across result events.                                    *)
(***************************************************************************)
\* The document ends with what the commit of a sentence-ending symbol leaves:
\* '.', '?' or '!' and the space after it, or the blank-line symbol.
endsWithSentenceEnd(doc) ==
  \/ /\ Len(doc) >= 2
     /\ doc[Len(doc)] = " "
     /\ doc[Len(doc) - 1] \in {".", "?", "!"}
  \/ /\ Len(doc) >= 2
     /\ doc[Len(doc)] = "\n"
     /\ doc[Len(doc) - 1] = "\n"

\* C14: once a sentence-ending symbol ('.', '?', '!' or the blank-line symbol)
\* is the last thing committed to the document, the literal word that the
\* next final event commits is capitalized.
C14_CapitalizationAcrossEvents ==
  (/\ lastOp.op = "result"
   /\ inserts[lastOp.ed] >= 2
   /\ endsWithSentenceEnd(lastOp.content)
   /\ startsWithLower(processTextWithPunctuation(
                        lastOp.pending \o finalTextOf(lastOp.event))))
    => LET word == processTextWithPunctuation(
                     lastOp.pending \o finalTextOf(lastOp.event))
       IN content[lastOp.ed] = lastOp.content \o upperFirst(word)

(***************************************************************************)
(* Properties of the phrase resolver and of the normalized output.         *)
(***************************************************************************)
\* The window of n words of the current call that starts at the 0-based index.
windowAt(startIndex, n) ==
  joinSpace(SubSeq(normCall.words, startIndex + 1, startIndex + n))

\* The window lengths at startIndex that stay inside words and resolve.
resolvingLengths(startIndex) ==
  {n \in 1..3 : /\ startIndex + n <= Len(normCall.words)
                /\ getPunctuationSymbol(windowAt(startIndex, n)) # null}

longest(lengths) == CHOOSE n \in lengths : \A m \in lengths : m <= n

\* C15: matchPunctuation answers with the longest window of 3, 2 or 1 words
\* that starts at startIndex, stays inside words and resolves, wordsConsumed
\* being its length, and with null when there is none; "semi colon test"
\* gives "; test".
C15_LongestWindowFirst ==
  /\ \A startIndex \in 0..(Len(normCall.words) - 1) :
       LET lengths == resolvingLengths(startIndex)
           found == matchPunctuation(normCall.words, startIndex)
       IN IF lengths = {} THEN found = noMatch
          ELSE /\ found.wordsConsumed = longest(lengths)
               /\ found.symbol = getPunctuationSymbol(
                                   windowAt(startIndex, longest(lengths)))
  /\ \A k \in 1..Len(normCall.tokens) :
       /\ tokenAt(k).consumed \in 1..3
       /\ tokenAt(k).at + tokenAt(k).consumed <= Len(normCall.words)
  /\ (normCall.pc = "done" /\ normCall.text = <<"s", "e", "m", "i", " ", "c", "o", "l", "o", "n", " ", "t", "e", "s", "t">>)
       => normCall.result = <<";", " ", "t", "e", "s", "t">>

\* "semi colon test": the two words "semi colon" were consumed as ';'.
C15_Witness ==
  /\ normCall.pc = "done"
  /\ normCall.text = <<"s", "e", "m", "i", " ", "c", "o", "l", "o", "n", " ", "t", "e", "s", "t">>
  /\ tokenAt(1) = [kind |-> "symbol", at |-> 0, consumed |-> 2, start |-> 1,
                   text |-> <<";">>]
  /\ normCall.result = <<";", " ", "t", "e", "s", "t">>

\* The symbol of the punctuation table for a phrase, null for any other text.
tableSymbolOf(phrase) ==
  IF phrase \in punctuationKeys
    THEN punctuationMap[CHOOSE k \in 1..Len(punctuationMap) :
                          punctuationMap[k][1] = phrase][2]
    ELSE null

\* C16: a window resolves exactly when, lowercased and trimmed, it is one of
\* the 21 phrases of the table, to the table's symbol for it; every other
\* word is emitted as a literal word.
C16_OnlyTablePhrasesResolve ==
  /\ \A startIndex \in 0..(Len(normCall.words) - 1) :
       \A n \in 1..3 :
         startIndex + n <= Len(normCall.words)
           => getPunctuationSymbol(windowAt(startIndex, n))
                = tableSymbolOf(trim(toLowerCase(windowAt(startIndex, n))))
  /\ \A k \in 1..Len(normCall.tokens) :
       tokenAt(k).kind = "symbol"
         => trim(toLowerCase(windowAt(tokenAt(k).at, tokenAt(k).consumed)))
              \in punctuationKeys

\* The index just after the text of token k in the result.
afterToken(k) == tokenAt(k).start + Len(tokenAt(k).text)

\* C17: in the output a symbol of a punctuation phrase other than the newline
\* and blank-line symbols is followed by exactly one space, also at the end;
\* "hello comma world full stop" gives "hello, world. ".
C17_OneSpaceAfterSymbol ==
  /\ \A k \in 1..Len(normCall.tokens) :
       (tokenAt(k).kind = "symbol"
          /\ tokenAt(k).text \in (tableSymbols \ newlineSymbols))
         => /\ afterToken(k) <= Len(normCall.result)
            /\ normCall.result[afterToken(k)] = " "
            /\ afterToken(k) + 1 <= Len(normCall.result)
                 => normCall.result[afterToken(k) + 1] # " "
  /\ (normCall.pc = "done" /\ normCall.text = xHelloCommaWorldFullStop)
       => normCall.result = <<"h", "e", "l", "l", "o", ",", " ", "w", "o", "r", "l", "d", ".", " ">>

\* "hello comma world full stop" gave "hello, world. ".
C17_Witness ==
  /\ normCall.pc = "done"
  /\ normCall.text = xHelloCommaWorldFullStop
  /\ Len(normCall.tokens) = 4
  /\ normCall.result = <<"h", "e", "l", "l", "o", ",", " ", "w", "o", "r", "l", "d", ".", " ">>

\* C18: in the output a newline or blank-line symbol is followed by the next
\* symbol, by the first character of the next word or by the end, never by
\* a space.
C18_NoSpaceAfterNewline ==
  \A k \in 1..Len(normCall.tokens) :
    (tokenAt(k).kind = "symbol" /\ tokenAt(k).text \in newlineSymbols)
      => \/ afterToken(k) > Len(normCall.result)
         \/ /\ normCall.result[afterToken(k)] # " "
            /\ k < Len(normCall.tokens)
            /\ tokenAt(k + 1).start = afterToken(k)

\* "new line hi" gave "\nhi".
C18_Witness ==
  /\ normCall.pc = "done"
  /\ normCall.text = <<"n", "e", "w", " ", "l", "i", "n", "e", " ", "h", "i">>
  /\ tokenAt(2).kind = "word"
  /\ normCall.result = <<"\n", "h", "i">>

isBlank(text) == \A k \in 1..Len(text) : text[k] \in WhiteSpace

\* C19: the empty text and every text of whitespace only give ''.
C19_BlankGivesEmpty ==
  (normCall.pc = "done" /\ isBlank(normCall.text))
    => /\ normCall.result = <<>>
       /\ normCall.tokens = <<>>
       /\ processTextWithPunctuation(normCall.text) = <<>>

\* The text " \n " was normalized to ''.
C19_Witness ==
  /\ normCall.pc = "done"
  /\ normCall.text = <<" ", "\n", " ">>
  /\ normCall.result = <<>>

\* None of the 1-, 2- or 3-word windows of the words is a punctuation phrase.
punctuationFree ==
  \A startIndex \in 0..(Len(normCall.words) - 1) :
    \A n \in 1..3 :
      startIndex + n <= Len(normCall.words)
        => trim(toLowerCase(windowAt(startIndex, n))) \notin punctuationKeys

\* C20: on a text none of whose windows is a punctuation phrase, normalizing
\* the output again gives the output.
C20_IdempotentOnPlainText ==
  (normCall.pc = "done" /\ punctuationFree)
    => processTextWithPunctuation(normCall.result) = normCall.result

(***************************************************************************)
(* Stopping from the preview's close button.                               *)
(***************************************************************************)
\* C21: the close callback run while Listening stops the recognizer, leaves
\* the session Idle and hides the preview; run while the session is Idle it
\* changes nothing (the preview stays hidden, the recognizer is not touched,
\* no document or pending text changes).
C21_CloseIsIdempotent ==
  [][\A e \in Editors :
       (lastOp'.op = "close" /\ lastOp'.ed = e)
         => /\ ~listening'[e]
            /\ previewContainer'[e] = null
            /\ recognition'[e] = IF listening[e] THEN recognizerStop(recognition[e])
                                                ELSE recognition[e]
            /\ listening[e] => recognition'[e] = "stopping"
            /\ content' = content /\ finalTranscript' = finalTranscript
            /\ inserts' = inserts]_vars

\* The close callback ran in an Idle session whose recognizer had ended.
C21_Witness ==
  /\ lastOp.op = "close" /\ ~lastOp.was
  /\ recognition[lastOp.ed] = "inactive"
  /\ ~listening[lastOp.ed] /\ previewContainer[lastOp.ed] = null

(***************************************************************************)
(* Consecutive commits.                                                    *)
(***************************************************************************)
hasDoubleSpace(doc) == \E k \in 1..(Len(doc) - 1) : doc[k] = " " /\ doc[k + 1] = " "

\* C22: a document that starts empty, or as any of DocSamples (none of which
\* holds two consecutive spaces), and to which the commits of final
\* transcript events are appended, never holds two consecutive spaces.
C22_NoDoubleSpaceInDocument ==
  \A e \in Editors : ~hasDoubleSpace(content[e])

\* Two commits on the empty document: "dot" gave ". ", then "hi" gave ". Hi".
C22_Witness ==
  /\ lastOp.op = "result" /\ inserts[lastOp.ed] = 2
  /\ lastOp.content = <<".", " ">>
  /\ content[lastOp.ed] = <<".", " ", "H", "i">>

(***************************************************************************)
(* The slots read by a result event.                                       *)
(***************************************************************************)
\* The text of the interim slots, in index order.
RECURSIVE concatInterim(_)
concatInterim(slots) ==
  IF Len(slots) = 0 THEN <<>>
  ELSE (IF slots[1].isFinal THEN <<>> ELSE slots[1].transcript)
         \o concatInterim(Tail(slots))

interimTextOf(event) ==
  concatInterim(SubSeq(event.results, event.resultIndex + 1, Len(event.results)))

\* C23: a result event reads the slots from resultIndex to the end in index
\* order.  The text committed is computed from state.finalTranscript followed
\* by the text of each final slot and one space; the text shown is computed
\* from the interim slots of this event alone; the slots before resultIndex
\* contribute to neither.
C23_SlotsFromResultIndex ==
  [][\A e \in Editors :
       (lastOp'.op = "result" /\ lastOp'.ed = e)
         => LET event == lastOp'.event
                final == finalTranscript[e] \o finalTextOf(event)
                interim == interimTextOf(event)
            IN /\ collectResults(event, event.resultIndex, finalTranscript[e], <<>>)
                    = <<final, interim>>
               /\ content'[e] =
                    IF Len(final) = 0 THEN content[e]
                    ELSE content[e] \o prepareTextForInsertion(content[e],
                                         processTextWithPunctuation(final))
               /\ previewContainer'[e] =
                    IF previewContainer[e] = null THEN null
                    ELSE IF Len(final) > 0 THEN <<>>
                    ELSE IF Len(interim) > 0 THEN processTextWithPunctuation(interim)
                    ELSE previewContainer[e]]_vars

\* An event with resultIndex 1 whose slot 0 is interim: the preview shows the
\* text of slots 1 and 2 only, in that order.
C23_Witness ==
  /\ lastOp.op = "result"
  /\ lastOp.event = [resultIndex |-> 1,
                     results |-> <<interimSlot(tDot), interimSlot(tHi), interimSlot(tDot)>>]
  /\ previewContainer[lastOp.ed] = <<"h", "i", "d", "o", "t">>
  /\ content[lastOp.ed] = lastOp.content

(***************************************************************************)
(* The order in which the window lengths are tried.                        *)
(***************************************************************************)
\* The words of phrase p are the first words of the longer phrase q (the
\* words of a phrase are separated by one space).
isWordPrefix(p, q) ==
  /\ Len(p) < Len(q)
  /\ SubSeq(q, 1, Len(p)) = p
  /\ q[Len(p) + 1] = " "

\* The orders in which the window lengths 1, 2, 3 can be tried.
windowOrders == {o \in [1..3 -> 1..3] : \A j, k \in 1..3 : o[j] = o[k] => j = k}

\* The first length, in the given order, among the lengths that resolve.
firstLength(lengths, order) ==
  order[CHOOSE k \in 1..3 : /\ order[k] \in lengths
                            /\ \A j \in 1..(k - 1) : order[j] \notin lengths]

\* C24: no phrase of punctuationMap is a proper word-prefix of a longer
\* phrase with a different symbol, and at every start index matchPunctuation
\* (lengths 3, 2, 1) gives what trying the lengths in any other order gives.
C24_WindowOrderIrrelevant ==
  /\ \A j, k \in 1..Len(punctuationMap) :
       isWordPrefix(punctuationMap[j][1], punctuationMap[k][1])
         => punctuationMap[j][2] = punctuationMap[k][2]
  /\ \A startIndex \in 0..(Len(normCall.words) - 1) :
       LET lengths == resolvingLengths(startIndex)
           found == matchPunctuation(normCall.words, startIndex)
       IN IF lengths = {} THEN found = noMatch
          ELSE \A order \in windowOrders :
                 /\ found.wordsConsumed = firstLength(lengths, order)
                 /\ found.symbol = getPunctuationSymbol(
                                     windowAt(startIndex, firstLength(lengths, order)))

\* "new paragraph hello": the two-word window at index 0 resolved, the
\* one-word window "new" did not.
C24_Witness ==
  /\ normCall.pc = "done"
  /\ normCall.text = xNewParagraphHello
  /\ resolvingLengths(0) = {2}
  /\ tokenAt(1).consumed = 2
  /\ normCall.result = <<"\n", "\n", "H", "e", "l", "l", "o">>

(***************************************************************************)
(* The preview and the recognizer of a session.                            *)
(***************************************************************************)
\* C25: after every handler the preview of an editor exists exactly when its
\* session is listening, and showPreview called on an existing preview keeps
\* that one instead of building a second.
C25_PreviewIffListening ==
  \A e \in Editors :
    /\ listening[e] <=> previewContainer[e] # null
    /\ previewContainer[e] # null
         => showPreview(previewContainer[e]) = previewContainer[e]

\* A listening session whose preview shows the interim text "hi".
C25_Witness ==
  /\ lastOp.op = "result"
  /\ listening[lastOp.ed]
  /\ previewContainer[lastOp.ed] = <<"h", "i">>
  /\ \E o \in Editors : ~listening[o] /\ previewContainer[o] = null

\* C26: whenever state.listening is true the recognizer object exists, so the
\* stop branch of handleAction always has a recognizer to stop, also on a
\* platform without the speech capability.
C26_ListeningHasRecognizer ==
  /\ \A e \in Editors : listening[e] => recognition[e] \in RecognizerStates
  /\ (lastOp.op = "stop" /\ lastOp.was)
       => (recognition[lastOp.ed] \in RecognizerStates /\ ~listening[lastOp.ed])
  /\ ~supported => \A e \in Editors : ~listening[e] /\ recognition[e] = "null"

\* The toggle stopped a listening session: its recognizer was there to stop.
C26_Witness ==
  /\ lastOp.op = "stop" /\ lastOp.was
  /\ recognition[lastOp.ed] = "stopping"
  /\ ~listening[lastOp.ed]

(***************************************************************************)
(* Termination of processTextWithPunctuation.                              *)
(***************************************************************************)
\* The cursor after the tokens emitted so far.
cursorAfter(k) == IF k = 0 THEN 0 ELSE tokenAt(k).at + tokenAt(k).consumed

\* Every iteration so far read at the cursor the previous one left, moved it
\* by 1 to 3 words without passing the end, and a literal word was emitted as
\* itself (or capitalized) after everything emitted before it.
consumedOnceInOrder ==
  /\ normCall.i = cursorAfter(Len(normCall.tokens))
  /\ normCall.i <= Len(normCall.words)
  /\ \A k \in 1..Len(normCall.tokens) :
       /\ tokenAt(k).at = cursorAfter(k - 1)
       /\ tokenAt(k).consumed \in 1..3
       /\ cursorAfter(k) <= Len(normCall.words)
       /\ k > 1 => tokenAt(k).start >= afterToken(k - 1)
       /\ SubSeq(normCall.result, tokenAt(k).start, afterToken(k) - 1) = tokenAt(k).text
       /\ tokenAt(k).kind = "word"
            => /\ tokenAt(k).consumed = 1
               /\ tokenAt(k).text \in {normCall.words[tokenAt(k).at + 1],
                                        capitalizeWord(normCall.words[tokenAt(k).at + 1])}
  /\ normCall.pc = "done" => normCall.i = Len(normCall.words)

\* The guard of NormEnter, of NormIterate or of NormReturn holds.
stepEnabled ==
  \/ normCall.pc = "call"
  \/ normCall.pc = "loop" /\ normCall.i < Len(normCall.words)
  \/ normCall.pc = "loop" /\ normCall.i >= Len(normCall.words)

\* C27: processTextWithPunctuation returns on every text: the call can always
\* take its next step until it has returned, and the iterations made never
\* outnumber the words consumed, which never outnumber the words of the
\* text.  Each iteration moves the cursor by 1 to 3 words and never past the
\* end, every word is consumed by exactly one iteration, as part of a matched
\* window or as one literal word, and the literal words are emitted in their
\* input order.
C27_NormalizeTerminates ==
  /\ consumedOnceInOrder
  /\ Len(normCall.tokens) <= normCall.i
  /\ normCall.pc \in {"call", "loop", "done"}
  /\ normCall.pc # "done" => stepEnabled

\* "hi full stop": a literal word, then a window of two words, and the return.
C27_Witness ==
  /\ normCall.pc = "done"
  /\ normCall.words = <<tHi, wFull, wStop>>
  /\ Len(normCall.tokens) = 2
  /\ tokenAt(1).kind = "word" /\ tokenAt(2).consumed = 2
  /\ normCall.i = 3

(***************************************************************************)
(* Final slots without text.                                               *)
(***************************************************************************)
\* The event has final slots from resultIndex on, and each of them carries an
\* empty or all-whitespace text.
onlyBlankFinals(event) ==
  /\ \E k \in (event.resultIndex + 1)..Len(event.results) : event.results[k].isFinal
  /\ \A k \in (event.resultIndex + 1)..Len(event.results) :
       event.results[k].isFinal => isBlank(event.results[k].transcript)

\* C28: a result event whose final slots all carry empty or all-whitespace
\* text leaves the document as it was, whatever the document holds.
C28_BlankFinalInsertsNothing ==
  (lastOp.op = "result" /\ lastOp.pending = <<>> /\ onlyBlankFinals(lastOp.event))
    => content[lastOp.ed] = lastOp.content

====
